---- MODULE Spec2Model ----
(***************************************************************************)
(* Model of the multi-agent research pipeline: the LangGraph state graph   *)
(* of src/src/graph/research_graph.py, the stage functions it runs, and    *)
(* the agent helpers the stages call (claim extractor, fact checker,       *)
(* final answer agent, reranker).                                          *)
(*                                                                         *)
(* Texts that the code inspects character by character (strip, substring,  *)
(* length) are sequences of one-character strings.  Texts that are only    *)
(* stored or compared as a whole (error messages, evidence, answers) are   *)
(* TLA+ strings.                                                           *)
(***************************************************************************)
EXTENDS Integers, Sequences, FiniteSets, TLC

VARIABLES
    pc,         \* position of run_research_pipeline: idle, invoke, except, returned
    state,      \* the graph's channel values: the ResearchState
    active,     \* nodes scheduled for the current superstep
    writes,     \* what the nodes of the current superstep returned
    step,       \* number of the current superstep
    executed,   \* history: the node executions, in order
    calls,      \* history: the collaborator calls made so far
    result,     \* what run_research_pipeline returned
    agg,        \* the Confidence Aggregator applied to a mapping on its own
    call,       \* a function applied on its own: its arguments and its outcome
    logger      \* the process-wide logger and the threads that call it

vars ==
    <<pc, state, active, writes, step, executed, calls, result, agg, call, logger>>

----------------------------------------------------------------------------
(* Bounds of the model *)

\* longest document list the search collaborator returns
MaxDocs == 2
\* longest item list the claim-extraction model returns
MaxClaims == 2
\* most keys in the JSON object the verification model returns
MaxKeys == 2

----------------------------------------------------------------------------
(* Texts *)

Range(s) == {s[i] : i \in DOMAIN s}

Min(a, b) == IF a < b THEN a ELSE b

\* a text of n characters c
Rep(c, n) == [i \in 1..n |-> c]

\* a literal of the source, n characters long, written by its first character
Lit(c, n) == [i \in 1..n |-> IF i = 1 THEN c ELSE "_"]

IsSpace(c) == c = " "

\* str.strip()
RECURSIVE LStrip(_)
LStrip(t) == IF t # <<>> /\ IsSpace(Head(t)) THEN LStrip(Tail(t)) ELSE t

RECURSIVE RStrip(_)
RStrip(t) ==
    IF t # <<>> /\ IsSpace(t[Len(t)]) THEN RStrip(SubSeq(t, 1, Len(t) - 1)) ELSE t

Strip(t) == RStrip(LStrip(t))

\* the Python test `a in b` on two strings
Contains(b, a) ==
    \E i \in 0..(Len(b) - Len(a)) : SubSeq(b, i + 1, i + Len(a)) = a

\* str(n) for a positive integer
RECURSIVE Digits(_)
Digits(n) ==
    LET d == <<"0", "1", "2", "3", "4", "5", "6", "7", "8", "9">>[(n % 10) + 1]
    IN  IF n < 10 THEN <<d>> ELSE Digits(n \div 10) \o <<d>>

\* f"Claim {n}" ("Claim " is written as the one character "C")
ClaimLabel(n) == <<"C">> \o Digits(n)

----------------------------------------------------------------------------
(* Data the collaborators produce *)

\* text of a raised exception, str(e)
ExcMsgs == {"timeout"}

\* LangChain Document objects of the vector store
Document(i, c, src) == [id |-> i, page_content |-> c, source |-> src]

Doc1 == Document(1, "x", "s1")
Doc2 == Document(2, "y", "s2")

Corpus == {Doc1, Doc2}

\* sequences without repetition of at most n elements of S
RECURSIVE Arrangements(_, _)
Arrangements(S, n) ==
    IF n = 0 THEN {<<>>}
    ELSE {<<>>} \cup {<<x>> \o t : x \in S, t \in Arrangements(S, n - 1)}

Distinct(s) == \A i, j \in DOMAIN s : i # j => s[i] # s[j]

SearchResults == {d \in Arrangements(Corpus, MaxDocs) : Distinct(d)}

\* scores of the cross-encoder
Scores == {1, 2}

\* texts of the user and of the query-rewriting model
Queries == {<<"q">>}
GeneratedTexts == {<<"r">>, <<" ", "r", " ">>, <<" ">>}

\* answers of the drafting model
DraftTexts == {<<"d">>, <<" ">>}

\* the fixed texts of the source
NO_DOCS_DRAFT == Lit("N", 48)
NO_CONTENT_CLAIM == Lit("E", 41)
FALLBACK_CLAIM_1 == Lit("T", 48)
FALLBACK_CLAIM_2 == Lit("H", 50)
FALLBACK_CLAIM_3 == Lit("Y", 59)

\* claim texts of the extraction model: TxtA is a substring of TxtAB,
\* TxtShort has 10 characters, TxtPadded has 10 once stripped
TxtA == Rep("a", 11)
TxtAB == Rep("a", 11) \o <<"b">>
TxtShort == Rep("a", 10)
TxtPadded == <<" ">> \o Rep("a", 10) \o <<" ">>

----------------------------------------------------------------------------
(* Claim verification entries: the JSON values stored under a claim *)

EntryKeys == {"verification_status", "confidence", "evidence", "explanation"}

Statuses == {"SUPPORTED", "PARTIALLY_SUPPORTED", "NOT_SUPPORTED", "CONTRADICTED"}

\* a JSON object with the four keys
Entry(status, conf, ev, ex) ==
    [is_dict |-> TRUE, keys |-> EntryKeys, verification_status |-> status,
     confidence |-> conf, conf_is_number |-> TRUE, evidence |-> ev,
     explanation |-> ex]

\* a JSON value that is no object (a string, a number, a list, null)
NonDictValue == [Entry("", 0, "", "") EXCEPT !.is_dict = FALSE, !.keys = {}]

\* an object whose confidence is no number ("95%", null)
NonNumericConfidence ==
    [Entry("SUPPORTED", 0, "quote", "why") EXCEPT !.conf_is_number = FALSE]

\* what the verification model may put under a key
ModelValues ==
    { Entry("SUPPORTED", 90, "quote", "why"),
      Entry("PARTIALLY_SUPPORTED", 50, "quote", "why"),
      Entry("CONTRADICTED", 80, "quote", "why"),
      Entry("UNVERIFIABLE", 50, "quote", "why"),
      NonNumericConfidence,
      NonDictValue }

\* dict.get(key, default) of an entry; a value that is no dict has no get
HasGet(v) == v.is_dict

GetStatus(v, default) ==
    IF "verification_status" \in v.keys THEN v.verification_status ELSE default

GetConfidence(v) == IF "confidence" \in v.keys THEN v.confidence ELSE 0

ConfidenceIsNumber(v) == "confidence" \notin v.keys \/ v.conf_is_number

\* the keys the verification model may use: two claim texts and a key that
\* holds no claim text but the label of claim 2
ModelKeys == { TxtA, TxtAB, ClaimLabel(2) \o <<":">> \o <<"o">> }

RECURSIVE KeyValueLists(_)
KeyValueLists(n) ==
    IF n = 0 THEN {<<>>}
    ELSE {<<>>} \cup
         {<<[key |-> k, value |-> v]>> \o t :
              k \in ModelKeys, v \in ModelValues, t \in KeyValueLists(n - 1)}

DistinctKeys(kv) == \A i, j \in DOMAIN kv : i # j => kv[i].key # kv[j].key

\* the JSON objects the verification model may return, in key order
ModelObjects == {kv \in KeyValueLists(MaxKeys) : DistinctKeys(kv)}

----------------------------------------------------------------------------
(* Confidence Aggregator.  Scores are kept in hundredths: 45.0 is 4500. *)

\* the sum of f over the finite set S
RECURSIVE SumOver(_, _)
SumOver(f, S) ==
    IF S = {} THEN 0
    ELSE LET x == CHOOSE y \in S : TRUE IN f[x] + SumOver(f, S \ {x})

\* round(n / d) of Python: to the nearest integer, a tie to the even one
RoundHalfEven(n, d) ==
    LET q == n \div d
        r == n % d
    IN  IF 2 * r < d THEN q
        ELSE IF 2 * r > d THEN q + 1
        ELSE IF q % 2 = 0 THEN q ELSE q + 1

\* mutant of FinalAnswerContribution: a contradicted claim adds its confidence
FinalAnswerContributionCountsContradicted(v) ==
    LET status == GetStatus(v, "NOT_SUPPORTED")
    IN  IF status \in {"SUPPORTED", "CONTRADICTED"} THEN GetConfidence(v) * 10
        ELSE IF status = "PARTIALLY_SUPPORTED" THEN GetConfidence(v) * 7
        ELSE 0

\* final_answer_agent: tenths contributed by one entry
FinalAnswerContribution(v) ==
    LET status == GetStatus(v, "NOT_SUPPORTED")
    IN  IF status = "SUPPORTED" THEN GetConfidence(v) * 10
        ELSE IF status = "PARTIALLY_SUPPORTED" THEN GetConfidence(v) * 7
        ELSE 0

\* final_answer_agent.calculate_overall_confidence raises: get on a value that
\* is no dict, or arithmetic on a confidence that is no number
calculate_overall_confidence_raises(verified_claims) ==
    \E c \in DOMAIN verified_claims :
        LET v == verified_claims[c]
        IN  \/ ~HasGet(v)
            \/ /\ GetStatus(v, "NOT_SUPPORTED") \in {"SUPPORTED", "PARTIALLY_SUPPORTED"}
               /\ ~ConfidenceIsNumber(v)

\* final_answer_agent.calculate_overall_confidence, when it returns
calculate_overall_confidence(verified_claims) ==
    LET valid == {c \in DOMAIN verified_claims :
                      GetStatus(verified_claims[c], "NOT_SUPPORTED") \in Statuses}
        total == SumOver([c \in valid |-> FinalAnswerContribution(verified_claims[c])],
                         valid)
    IN  IF DOMAIN verified_claims = {} THEN 0
        ELSE IF Cardinality(valid) = 0 THEN 0
        ELSE Min(10000, RoundHalfEven(total * 10, Cardinality(valid)))

\* mutant of FactCheckerWeight: 6.0 written for 0.6
FactCheckerWeightTypo(status) ==
    IF status = "SUPPORTED" THEN 10
    ELSE IF status = "PARTIALLY_SUPPORTED" THEN 60
    ELSE IF status = "NOT_SUPPORTED" THEN 1
    ELSE IF status = "CONTRADICTED" THEN 0
    ELSE 10

\* fact_checker_agent: the weight of a status, in tenths
FactCheckerWeight(status) ==
    IF status = "SUPPORTED" THEN 10
    ELSE IF status = "PARTIALLY_SUPPORTED" THEN 6
    ELSE IF status = "NOT_SUPPORTED" THEN 1
    ELSE IF status = "CONTRADICTED" THEN 0
    ELSE 10

\* fact_checker_agent.calculate_overall_confidence
fact_checker_calculate_overall_confidence(verified_claims) ==
    LET keys == DOMAIN verified_claims
        total == SumOver([c \in keys |->
                             GetConfidence(verified_claims[c]) *
                             FactCheckerWeight(GetStatus(verified_claims[c],
                                                         "NOT_SUPPORTED"))],
                         keys)
    IN  IF keys = {} THEN 0
        ELSE RoundHalfEven(total * 10, Cardinality(keys))

----------------------------------------------------------------------------
(* Final Answer Agent *)

FinalAnswerKeys ==
    {"final_answer", "confidence_score", "verified_sources", "limitations"}

Breakdown(s, p, n, c) ==
    [supported |-> s, partially_supported |-> p, not_supported |-> n,
     contradicted |-> c]

\* a FinalAnswer dict: keys names the keys that are present
FinalAnswer(ks, text, conf, sources, lim, bd) ==
    [keys |-> ks, final_answer |-> text, confidence_score |-> conf,
     verified_sources |-> sources, limitations |-> lim, claim_breakdown |-> bd]

\* the dict {}
EmptyDict == FinalAnswer({}, "", 0, {}, "", Breakdown(0, 0, 0, 0))

\* the number of entries whose status is the given one
CountStatus(verified_claims, status) ==
    Cardinality({c \in DOMAIN verified_claims :
                     GetStatus(verified_claims[c], "UNKNOWN") = status})

\* outcomes of model.generate_content(prompt).text in the final answer agent
FinalLLMOutcomes ==
    {[raises |-> TRUE, msg |-> m, text |-> ""] : m \in ExcMsgs} \cup
    {[raises |-> FALSE, msg |-> "", text |-> t] : t \in {"answer", ""}}

\* generate_final_answer raises before its try block
generate_final_answer_raises(verified_claims) ==
    \/ \E c \in DOMAIN verified_claims : ~HasGet(verified_claims[c])
    \/ calculate_overall_confidence_raises(verified_claims)

\* generate_final_answer, when it returns
generate_final_answer(original_query, verified_claims, context_docs, out) ==
    LET supported == CountStatus(verified_claims, "SUPPORTED")
        partially == CountStatus(verified_claims, "PARTIALLY_SUPPORTED")
        not_supported == CountStatus(verified_claims, "NOT_SUPPORTED")
        contradicted == CountStatus(verified_claims, "CONTRADICTED")
        sources_used == {context_docs[i].source : i \in DOMAIN context_docs}
        overall_confidence == calculate_overall_confidence(verified_claims)
        breakdown == Breakdown(supported, partially, not_supported, contradicted)
    IN  IF out.raises
        THEN FinalAnswer(FinalAnswerKeys \cup {"claim_breakdown"},
                 "I encountered an error while generating the final answer: "
                     \o out.msg,
                 overall_confidence, sources_used,
                 "System error during answer generation", breakdown)
        ELSE FinalAnswer(FinalAnswerKeys \cup {"claim_breakdown"},
                 out.text, overall_confidence, sources_used,
                 "Based on verification: " \o ToString(supported)
                     \o " supported, " \o ToString(not_supported)
                     \o " not supported claims",
                 breakdown)

----------------------------------------------------------------------------
(* Fact Checker Agent *)

\* outcomes of model.generate_content(prompt).text in the fact checker: an
\* exception, a text holding a JSON object, or a text holding none
VerifyLLMOutcomes ==
    {[raises |-> TRUE, msg |-> m, parsed |-> FALSE, object |-> <<>>] : m \in ExcMsgs}
    \cup {[raises |-> FALSE, msg |-> "", parsed |-> FALSE, object |-> <<>>]}
    \cup {[raises |-> FALSE, msg |-> "", parsed |-> TRUE, object |-> o] :
              o \in ModelObjects}

\* the key "fallback"
FALLBACK_KEY == Lit("f", 8)

\* fact_checker_agent.extract_json_from_text: the object of the text, in key
\* order, or the fallback structure
fact_checker_extract_json_from_text(out) ==
    IF out.parsed THEN out.object
    ELSE <<[key |-> FALLBACK_KEY,
            value |-> Entry("NOT_SUPPORTED", 0, "JSON parsing failed",
                            "Could not parse verification results")]>>

\* the entry for a claim the results do not mention
MissingEntry ==
    Entry("NOT_SUPPORTED", 0, "Claim not found in verification results",
          "Verification system did not process this claim")

\* the entry for claims[i]: the value of the first matching key of results
ReconcileClaim(i, claim, results) ==
    LET matches == {j \in DOMAIN results :
                        \/ Contains(results[j].key, claim)
                        \/ Contains(results[j].key, ClaimLabel(i))}
    IN  IF matches = {} THEN MissingEntry
        ELSE results[CHOOSE j \in matches : \A k \in matches : j <= k].value

\* the last position of text c in claims: a later assignment to the same
\* dict key replaces an earlier one
LastIndex(claims, c) ==
    CHOOSE i \in DOMAIN claims :
        claims[i] = c /\ \A k \in DOMAIN claims : claims[k] = c => k <= i

\* mutant of fact_check_claims: the parsed results are returned as they are
fact_check_claims_unreconciled(claims, context_docs, out) ==
    IF out.raises
    THEN [c \in Range(claims) |->
             Entry("NOT_SUPPORTED", 0, "System error: " \o out.msg,
                   "Fact checking failed due to system error")]
    ELSE LET results == fact_checker_extract_json_from_text(out)
         IN  [k \in {results[j].key : j \in DOMAIN results} |->
                 results[CHOOSE j \in DOMAIN results : results[j].key = k].value]

\* fact_check_claims
fact_check_claims(claims, context_docs, out) ==
    IF out.raises
    THEN [c \in Range(claims) |->
             Entry("NOT_SUPPORTED", 0, "System error: " \o out.msg,
                   "Fact checking failed due to system error")]
    ELSE LET results == fact_checker_extract_json_from_text(out)
         IN  [c \in Range(claims) |->
                 ReconcileClaim(LastIndex(claims, c), c, results)]

----------------------------------------------------------------------------
(* Claim Extractor Agent *)

MIN_CLAIM_LEN == 10
MIN_SENTENCE_LEN == 20
MAX_SENTENCE_LEN == 200
MAX_FALLBACK_CLAIMS == 5

\* JSON values: a string, a list of values, or something else (a number, an
\* object, null), which is truthy or not
JsonString(t) == [type |-> "string", text |-> t, items |-> <<>>, truthy |-> t # <<>>]
JsonOther(b) == [type |-> "other", text |-> <<>>, items |-> <<>>, truthy |-> b]
JsonList(xs) == [type |-> "list", text |-> <<>>, items |-> xs, truthy |-> xs # <<>>]
JsonNone == JsonOther(FALSE)

\* the elements the extraction model may put in its list
ModelItems ==
    { JsonString(TxtA), JsonString(TxtAB), JsonString(TxtShort),
      JsonString(TxtPadded), JsonString(<<>>), JsonOther(TRUE) }

\* all sequences of at most n elements of S
RECURSIVE SeqsUpTo(_, _)
SeqsUpTo(S, n) ==
    IF n = 0 THEN {<<>>}
    ELSE {<<>>} \cup {<<x>> \o t : x \in S, t \in SeqsUpTo(S, n - 1)}

\* the pieces re.split(r'[.!?]+', text) gives for a text of prose
Sentence == Rep("s", 21)
ModelSentences ==
    { <<>>,
      <<Rep("s", 20), <<" ">> \o Sentence \o <<" ">>>>,
      <<Sentence, Sentence, Sentence, Sentence, Sentence, Sentence>>,
      <<Rep("s", 200)>> }

\* a response text: what json.loads makes of it (direct), else what
\* extract_json_from_text finds in it (found), and its sentences
Response(ok, v, f, ss) ==
    [raises |-> FALSE, msg |-> "", direct_ok |-> ok, direct |-> v, found |-> f,
     sentences |-> ss]

\* outcomes of model.generate_content(prompt).text in the claim extractor
ExtractLLMOutcomes ==
    {[Response(FALSE, JsonNone, JsonNone, <<>>) EXCEPT !.raises = TRUE, !.msg = m] :
         m \in ExcMsgs}
    \cup {Response(TRUE, JsonList(xs), JsonNone, <<>>) :
              xs \in SeqsUpTo(ModelItems, MaxClaims)}
    \cup {Response(TRUE, v, JsonNone, <<>>) :
              v \in {JsonString(TxtA), JsonString(<<>>), JsonOther(TRUE), JsonNone}}
    \cup {Response(FALSE, JsonNone, JsonList(<<JsonString(TxtAB)>>), <<Sentence>>),
          Response(FALSE, JsonNone, JsonList(<<>>), <<Sentence>>),
          Response(FALSE, JsonNone, JsonOther(TRUE), <<Sentence>>)}
    \cup {Response(FALSE, JsonNone, JsonNone, ss) : ss \in ModelSentences}

\* Strategy 3: the stripped sentences of suitable length, at most five
FallbackSentences(sentences) ==
    LET kept == SelectSeq([i \in DOMAIN sentences |-> Strip(sentences[i])],
                          LAMBDA t : Len(t) > MIN_SENTENCE_LEN
                                     /\ Len(t) < MAX_SENTENCE_LEN)
    IN  SubSeq(kept, 1, Min(MAX_FALLBACK_CLAIMS, Len(kept)))

\* mutant of FilterClaims: strings of ten characters are kept, and so are
\* values that are no strings
FilterClaimsInclusive(values) ==
    LET kept == SelectSeq(values,
                          LAMBDA x : x.truthy /\ Len(Strip(x.text)) >= MIN_CLAIM_LEN)
    IN  [i \in DOMAIN kept |-> kept[i].text]

\* the list of the claim texts of a sequence of JSON values: the truthy
\* strings with more than ten characters once stripped
FilterClaims(values) ==
    LET kept == SelectSeq(values,
                          LAMBDA x : x.truthy /\ x.type = "string"
                                     /\ Len(Strip(x.text)) > MIN_CLAIM_LEN)
    IN  [i \in DOMAIN kept |-> kept[i].text]

\* mutant of extract_claims_calls_llm: the draft is not stripped
extract_claims_calls_llm_unstripped(answer_text) == answer_text # <<>>

\* extract_claims makes its LLM call
extract_claims_calls_llm(answer_text) ==
    ~(answer_text = <<>> \/ Strip(answer_text) = <<>>)

\* extract_claims
extract_claims(answer_text, out) ==
    IF ~extract_claims_calls_llm(answer_text) THEN <<NO_CONTENT_CLAIM>>
    ELSE IF out.raises
    THEN <<FALLBACK_CLAIM_1, FALLBACK_CLAIM_2, FALLBACK_CLAIM_3>>
    ELSE LET parsed == IF out.direct_ok THEN out.direct ELSE out.found
             fallback == FallbackSentences(out.sentences)
             claims == IF parsed.truthy THEN parsed
                       ELSE JsonList([i \in DOMAIN fallback |->
                                         JsonString(fallback[i])])
             as_list == IF claims.type = "list" THEN claims.items
                        ELSE IF claims.truthy THEN <<claims>> ELSE <<>>
         IN  FilterClaims(as_list)

----------------------------------------------------------------------------
(* Retriever and Reranker *)

RETRIEVE_TOP_K == 5
RERANK_TOP_K == 3

\* outcomes of retrieve_docs(query, top_k): an exception or the documents
SearchOutcomes ==
    {[raises |-> TRUE, docs |-> <<>>]} \cup
    {[raises |-> FALSE, docs |-> d] :
         d \in {x \in SearchResults : Len(x) <= RETRIEVE_TOP_K}}

\* run_retriever: the documents, or the empty list when retrieval fails
run_retriever(out) == IF out.raises \/ out.docs = <<>> THEN <<>> ELSE out.docs

\* convert_docs_to_reranker_format
convert_docs_to_reranker_format(docs) ==
    [i \in DOMAIN docs |->
        [content |-> docs[i].page_content, metadata |-> docs[i].source]]

\* outcomes of CrossEncoder.predict on n pairs
ScoreOutcomes(n) ==
    {[raises |-> TRUE, msg |-> m, scores |-> <<>>] : m \in ExcMsgs} \cup
    {[raises |-> FALSE, msg |-> "", scores |-> f] : f \in [1..n -> Scores]}

\* sorted(docs, key=score, reverse=True): stable, so x goes behind every
\* element whose score is at least its own
InsertByScore(sorted, x) ==
    LET before == SelectSeq(sorted, LAMBDA y : y.score >= x.score)
        after == SelectSeq(sorted, LAMBDA y : y.score < x.score)
    IN  before \o <<x>> \o after

RECURSIVE SortByScoreDesc(_)
SortByScoreDesc(docs) ==
    IF docs = <<>> THEN <<>>
    ELSE InsertByScore(SortByScoreDesc(SubSeq(docs, 1, Len(docs) - 1)),
                       docs[Len(docs)])

\* RerankerAgent.rerank
rerank(docs, scores, top_k) ==
    IF docs = <<>> THEN <<>>
    ELSE LET scored == [i \in DOMAIN docs |->
                           [content |-> docs[i].content,
                            metadata |-> docs[i].metadata,
                            score |-> scores[i]]]
             ranked == SortByScoreDesc(scored)
         IN  SubSeq(ranked, 1, Min(top_k, Len(ranked)))

\* the first retrieved document with the content of a ranked one
FirstWithContent(retrieved_docs, content) ==
    LET hits == {i \in DOMAIN retrieved_docs :
                     retrieved_docs[i].page_content = content}
    IN  IF hits = {} THEN <<>>
        ELSE <<retrieved_docs[CHOOSE i \in hits : \A k \in hits : i <= k]>>

\* the loop of reranker_node that maps ranked dicts back to Documents
RECURSIVE MatchOriginals(_, _)
MatchOriginals(ranked_docs, retrieved_docs) ==
    IF ranked_docs = <<>> THEN <<>>
    ELSE FirstWithContent(retrieved_docs, Head(ranked_docs).content)
         \o MatchOriginals(Tail(ranked_docs), retrieved_docs)

----------------------------------------------------------------------------
(* The stages of research_graph.py.  A stage returns the state it hands    *)
(* back to the graph and the collaborator calls it made.                   *)

ResearchState(query) ==
    [original_query |-> query, refined_query |-> <<>>, retrieved_docs |-> <<>>,
     reranked_docs |-> <<>>, draft_answer |-> <<>>, extracted_claims |-> <<>>,
     verified_claims |-> <<>>, final_answer |-> EmptyDict, error |-> ""]

\* a node returns a new dict ({**state, ...}) and leaves the one it received
Returns(s, c) ==
    [state |-> s, calls |-> c, in_place |-> FALSE,
     query |-> [used |-> FALSE, text |-> <<>>],
     context |-> [used |-> FALSE, docs |-> <<>>]]

\* a node assigns into the dict it received and returns that dict
ReturnsReceived(s, c) == [Returns(s, c) EXCEPT !.in_place = TRUE]

\* query = state.get("refined_query", state["original_query"]): the state
\* always has the key, so the default is never taken
StageQuery(s) == [used |-> TRUE, text |-> s.refined_query]

\* outcomes of a text-generating model call
TextOutcomes(texts) ==
    {[raises |-> TRUE, msg |-> m, text |-> <<>>] : m \in ExcMsgs} \cup
    {[raises |-> FALSE, msg |-> "", text |-> t] : t \in texts}

\* reformulate_query
reformulate_query(out) == Strip(out.text)

\* mutant of query_understanding_node: on failure the original query is
\* kept as the refined one
query_understanding_node_keeps_query(s, out) ==
    IF out.raises
    THEN Returns([s EXCEPT !.error = "Query understanding failed: " \o out.msg,
                           !.refined_query = s.original_query],
                 {"refine"})
    ELSE Returns([s EXCEPT !.refined_query = reformulate_query(out)], {"refine"})

query_understanding_node(s, out) ==
    IF out.raises
    THEN Returns([s EXCEPT !.error = "Query understanding failed: " \o out.msg],
                 {"refine"})
    ELSE Returns([s EXCEPT !.refined_query = reformulate_query(out)], {"refine"})

retrieval_node(s, out) ==
    [Returns([s EXCEPT !.retrieved_docs = run_retriever(out)], {"search"})
        EXCEPT !.query = StageQuery(s)]

reranker_node(s, out) ==
    IF s.retrieved_docs # <<>>
    THEN IF out.raises
         THEN [Returns([s EXCEPT !.error = "Reranking failed: " \o out.msg],
                       {"score"})
                  EXCEPT !.query = StageQuery(s)]
         ELSE LET docs_for_reranking ==
                      convert_docs_to_reranker_format(s.retrieved_docs)
                  ranked_docs == rerank(docs_for_reranking, out.scores, RERANK_TOP_K)
              IN  [Returns([s EXCEPT !.reranked_docs =
                                         MatchOriginals(ranked_docs, s.retrieved_docs)],
                           {"score"})
                      EXCEPT !.query = StageQuery(s)]
    ELSE Returns([s EXCEPT !.reranked_docs = <<>>], {})

\* mutant of ContextDocs: no fall back to retrieved_docs
ContextDocsNoFallback(s) == s.reranked_docs

\* reranked_docs if there are any, else retrieved_docs
ContextDocs(s) ==
    IF s.reranked_docs # <<>> THEN s.reranked_docs ELSE s.retrieved_docs

\* mutant of reasoning_node: no short-circuit on an empty context
reasoning_node_always_drafts(s, out) ==
    IF out.raises
    THEN Returns([s EXCEPT !.error = "Reasoning failed: " \o out.msg], {"draft_llm"})
    ELSE Returns([s EXCEPT !.draft_answer = out.text], {"draft_llm"})

reasoning_node(s, out) ==
    LET context_docs == ContextDocs(s)
        ret ==
            IF context_docs = <<>>
            THEN ReturnsReceived([s EXCEPT !.draft_answer = NO_DOCS_DRAFT], {})
            ELSE IF out.raises
            THEN [Returns([s EXCEPT !.error = "Reasoning failed: " \o out.msg],
                          {"draft_llm"})
                     EXCEPT !.query = StageQuery(s)]
            ELSE [Returns([s EXCEPT !.draft_answer = out.text], {"draft_llm"})
                     EXCEPT !.query = StageQuery(s)]
    IN  [ret EXCEPT !.context = [used |-> TRUE, docs |-> context_docs]]

\* mutant of claim_extraction_node: the exception of the LLM call leaves
\* extract_claims and is caught by the node
claim_extraction_node_propagates(s, out) ==
    IF extract_claims_calls_llm(s.draft_answer) /\ out.raises
    THEN Returns([s EXCEPT !.error = "Claim extraction failed: " \o out.msg],
                 {"extract_llm", "extract_llm_failed"})
    ELSE Returns([s EXCEPT !.extracted_claims = extract_claims(s.draft_answer, out)],
                 IF extract_claims_calls_llm(s.draft_answer) THEN {"extract_llm"}
                 ELSE {})

claim_extraction_node(s, out) ==
    Returns([s EXCEPT !.extracted_claims = extract_claims(s.draft_answer, out)],
            IF ~extract_claims_calls_llm(s.draft_answer) THEN {}
            ELSE IF out.raises THEN {"extract_llm", "extract_llm_failed"}
            ELSE {"extract_llm"})

\* the entry of a claim when there is no document to check it against
NoDocumentsEntry ==
    Entry("NOT_SUPPORTED", 0, "No documents available for verification",
          "Cannot verify claims without source documents")

\* mutant of fact_checking_node: no short cut for an empty context
fact_checking_node_always_checks(s, out) ==
    Returns([s EXCEPT !.verified_claims =
                 fact_check_claims(s.extracted_claims,
                     convert_docs_to_reranker_format(ContextDocs(s)), out)],
            IF out.raises THEN {"verify_llm", "verify_llm_failed"}
            ELSE {"verify_llm"})

fact_checking_node(s, out) ==
    LET context_docs == ContextDocs(s)
        ret ==
            IF context_docs = <<>>
            THEN Returns([s EXCEPT !.verified_claims =
                              [c \in Range(s.extracted_claims) |-> NoDocumentsEntry]],
                         {})
            ELSE Returns([s EXCEPT !.verified_claims =
                              fact_check_claims(s.extracted_claims,
                                  convert_docs_to_reranker_format(context_docs), out)],
                         IF out.raises THEN {"verify_llm", "verify_llm_failed"}
                         ELSE {"verify_llm"})
    IN  [ret EXCEPT !.context = [used |-> TRUE, docs |-> context_docs]]

final_answer_node(s, out) ==
    LET context_docs == ContextDocs(s)
        ret ==
            IF generate_final_answer_raises(s.verified_claims)
            THEN Returns([s EXCEPT !.error = "Final answer generation failed: "
                                                \o "bad verification value"],
                         {})
            ELSE Returns([s EXCEPT !.final_answer =
                              generate_final_answer(s.original_query,
                                  s.verified_claims, context_docs, out)],
                         {"final_llm"})
    IN  [ret EXCEPT !.context = [used |-> TRUE, docs |-> context_docs]]

error_node(s) ==
    Returns([s EXCEPT !.final_answer =
                 FinalAnswer(FinalAnswerKeys, "Pipeline Error: " \o s.error, 0, {},
                             "System error prevented complete processing",
                             Breakdown(0, 0, 0, 0))],
            {})

----------------------------------------------------------------------------
(* The graph of build_research_graph and its execution by invoke.          *)
(* A superstep runs every scheduled node on the same channel values; the   *)
(* values the nodes return are written to the channels when all of them    *)
(* have returned, and the edges of the nodes that ran schedule the next    *)
(* superstep.  Every state key is a last-value channel that accepts one    *)
(* write per superstep.                                                    *)

NormalStages ==
    <<"query_understanding", "retrieval", "reranking", "reasoning",
      "claim_extraction", "fact_checking", "final_answer">>

Nodes == Range(NormalStages) \cup {"error_handler"}

END == "__end__"

\* workflow.add_edge(source, target)
Edges ==
    {<<NormalStages[i], NormalStages[i + 1]>> : i \in 1..(Len(NormalStages) - 1)}
    \cup {<<"final_answer", END>>}

\* workflow.add_conditional_edges(source, lambda state: ...)
ConditionalSources == {NormalStages[i] : i \in 1..(Len(NormalStages) - 1)}

ConditionalTarget(source, s) ==
    IF s.error # "" THEN "error_handler"
    ELSE CHOOSE t \in Nodes : <<source, t>> \in
             {<<NormalStages[i], NormalStages[i + 1]>> :
                  i \in 1..(Len(NormalStages) - 1)}

\* the nodes scheduled after node has returned state s
Successors(node, s) ==
    ({e[2] : e \in {d \in Edges : d[1] = node}}
     \cup (IF node \in ConditionalSources THEN {ConditionalTarget(node, s)} ELSE {}))
    \ {END}

ENTRY_POINT == "query_understanding"

\* str(e) of the InvalidUpdateError of a channel written twice in a superstep
INVALID_UPDATE == "Can receive only one value per step"

StateKeys ==
    {"original_query", "refined_query", "retrieved_docs", "reranked_docs",
     "draft_answer", "extracted_claims", "verified_claims", "final_answer", "error"}

\* the dict run_research_pipeline returns when invoke returns
NormalResult(s) == [keys |-> StateKeys \cup {"logs"}, value |-> s]

\* the dict run_research_pipeline returns when invoke raises
SystemErrorResult(msg) ==
    [keys |-> {"final_answer", "error", "logs"},
     value |-> [ResearchState(<<>>) EXCEPT
                   !.final_answer =
                       FinalAnswer(FinalAnswerKeys, "System Error: " \o msg, 0, {},
                                   "Critical system failure", Breakdown(0, 0, 0, 0)),
                   !.error = msg]]

NoResult == [keys |-> {}, value |-> ResearchState(<<>>)]

\* a stage has already returned a state with an error
ErrorReturned == state.error # "" \/ \E w \in writes : w.state.error # ""

\* node runs in the current superstep and returns ret
Execute(node, ret) ==
    /\ pc = "invoke"
    /\ node \in active
    /\ node \notin {w.node : w \in writes}
    /\ writes' = writes \cup {[node |-> node, state |-> ret.state]}
    /\ executed' = Append(executed, [node |-> node, step |-> step,
                                     after_error |-> ErrorReturned,
                                     input_changed |-> ret.in_place
                                                       /\ ret.state # state,
                                     query |-> ret.query,
                                     context |-> ret.context])
    /\ calls' = calls \cup ret.calls
    /\ UNCHANGED <<pc, state, active, step, result, agg, call, logger>>

QueryUnderstanding ==
    \E out \in TextOutcomes(GeneratedTexts) :
        Execute("query_understanding", query_understanding_node(state, out))

Retrieval ==
    \E out \in SearchOutcomes : Execute("retrieval", retrieval_node(state, out))

Reranking ==
    \E out \in ScoreOutcomes(Len(state.retrieved_docs)) :
        Execute("reranking", reranker_node(state, out))

Reasoning ==
    \E out \in TextOutcomes(DraftTexts) :
        Execute("reasoning", reasoning_node(state, out))

ClaimExtraction ==
    \E out \in ExtractLLMOutcomes :
        Execute("claim_extraction", claim_extraction_node(state, out))

FactChecking ==
    \E out \in VerifyLLMOutcomes :
        Execute("fact_checking", fact_checking_node(state, out))

ComposeFinalAnswer ==
    \E out \in FinalLLMOutcomes :
        Execute("final_answer", final_answer_node(state, out))

ErrorHandler == Execute("error_handler", error_node(state))

\* the end of a superstep: the writes reach the channels, or the update is
\* refused and invoke raises into the except branch of run_research_pipeline
Superstep ==
    /\ pc = "invoke"
    /\ active # {}
    /\ {w.node : w \in writes} = active
    /\ IF Cardinality(writes) > 1
       THEN /\ pc' = "returned"
            /\ result' = SystemErrorResult(INVALID_UPDATE)
            /\ active' = {}
            /\ UNCHANGED <<state, step>>
       ELSE LET w == CHOOSE x \in writes : TRUE
            IN  /\ state' = w.state
                /\ active' = Successors(w.node, w.state)
                /\ step' = step + 1
                /\ UNCHANGED <<pc, result>>
    /\ writes' = {}
    /\ UNCHANGED <<executed, calls, agg, call, logger>>

\* invoke has returned: run_research_pipeline returns the state
ReturnResult ==
    /\ pc = "invoke"
    /\ active = {}
    /\ pc' = "returned"
    /\ result' = NormalResult(state)
    /\ UNCHANGED <<state, active, writes, step, executed, calls, agg, call, logger>>

----------------------------------------------------------------------------
(* The Confidence Aggregator on its own *)

\* longest mapping given to the aggregator
MaxAggClaims == 2

AggKeys == {<<"k">> \o Digits(i) : i \in 1..MaxAggClaims}

AggConfidences == {0, 33, 100}

WellFormedEntries ==
    {Entry(st, c, "quote", "why") : st \in Statuses, c \in AggConfidences}

WellFormedMappings ==
    UNION {[K -> WellFormedEntries] : K \in SUBSET AggKeys}

AggIdle == [input |-> <<>>, times |-> 0, final |-> 0, fact |-> 0, same |-> TRUE]

\* both calculate_overall_confidence functions applied to agg.input; neither
\* assigns to its argument
ApplyAggregator ==
    /\ pc = "aggregate"
    /\ agg.times < 2
    /\ LET final == calculate_overall_confidence(agg.input)
           fact == fact_checker_calculate_overall_confidence(agg.input)
       IN  agg' = [input |-> agg.input, times |-> agg.times + 1,
                   final |-> final, fact |-> fact,
                   same |-> agg.times = 0 \/ (final = agg.final /\ fact = agg.fact)]
    /\ UNCHANGED <<pc, state, active, writes, step, executed, calls, result, call, logger>>

----------------------------------------------------------------------------
(* The Rerank stage on its own, on any list the search may have returned *)

\* longest document list given to the stage
MaxRerankDocs == 4

\* Doc3 is another document with the content of Doc1
Doc3 == Document(3, "x", "s3")
Doc4 == Document(4, "z", "s4")

\* the lists of distinct Document objects the search may return
RerankInputs ==
    {d \in Arrangements(Corpus \cup {Doc3, Doc4}, MaxRerankDocs) : Distinct(d)}

NoCall == [fn |-> "", arg |-> <<>>, out |-> <<>>]

\* reranker_node called with a state and the scores the cross-encoder gives
RerankOnly ==
    /\ pc = "rerank"
    /\ \E out \in ScoreOutcomes(Len(state.retrieved_docs)) :
           /\ state' = reranker_node(state, out).state
           /\ call' = [fn |-> "reranker_node", arg |-> state, out |-> out]
    /\ pc' = "reranked"
    /\ UNCHANGED <<active, writes, step, executed, calls, result, agg, logger>>

----------------------------------------------------------------------------
(* The VerifyClaims stage on its own: fact_checking_node called with the   *)
(* claims ExtractClaims may have left and one retrieved document.          *)

\* the lists of claims that pass the filter of extract_claims
VerifyInputs == SeqsUpTo({TxtA, TxtAB}, MaxClaims)

\* fact_checking_node called with a state and the answer of the model
VerifyOnly ==
    /\ pc = "verify"
    /\ \E out \in VerifyLLMOutcomes :
           /\ state' = fact_checking_node(state, out).state
           /\ call' = [fn |-> "fact_checking_node", arg |-> state, out |-> out]
    /\ pc' = "verified"
    /\ UNCHANGED <<active, writes, step, executed, calls, result, agg, logger>>

----------------------------------------------------------------------------
(* The Structured-Output Parser on its own.  A text is a sequence of        *)
(* tokens: the brackets, the comma and the colon, "1" for a scalar, "k"    *)
(* and "m" for two quoted keys, " " for white space, "~" for a run of      *)
(* three backticks and "j" for the word json.                              *)

\* most elements of an array and most keys of an object
MaxJsonItems == 2

JsonScalar == [t |-> "scalar", items |-> <<>>]
JsonArray(xs) == [t |-> "array", items |-> xs]
JsonObject(ps) == [t |-> "object", items |-> ps]

JsonKeys == <<"k", "m">>

\* the arrays and the objects whose elements are in S
JsonContainers(S) ==
    {JsonArray(xs) : xs \in SeqsUpTo(S, MaxJsonItems)}
    \cup UNION {{JsonObject([i \in 1..n |-> [key |-> JsonKeys[i], value |-> f[i]]]) :
                    f \in [1..n -> S]} :
                n \in 0..Min(MaxJsonItems, Len(JsonKeys))}

\* flat containers, and the containers that hold scalars and flat containers
JsonFlat == JsonContainers({JsonScalar})
JsonDocuments == JsonContainers({JsonScalar} \cup JsonFlat)

\* json.dumps without white space; comma is <<",">> before the last closing
\* bracket of a container that is not empty when a trailing comma is asked for
RECURSIVE JsonDumps(_, _)
JsonDumps(v, comma) ==
    LET n == Len(v.items)
        sep(i) == IF i < n THEN <<",">> ELSE IF n > 0 THEN comma ELSE <<>>
        item(i) == IF v.t = "array" THEN JsonDumps(v.items[i], <<>>)
                   ELSE <<v.items[i].key, ":">> \o JsonDumps(v.items[i].value, <<>>)
        joined[i \in 0..n] ==
            IF i = 0 THEN <<>> ELSE joined[i - 1] \o item(i) \o sep(i)
    IN  IF v.t = "scalar" THEN <<"1">>
        ELSE IF v.t = "array" THEN <<"[">> \o joined[n] \o <<"]">>
        ELSE <<"{">> \o joined[n] \o <<"}">>

\* json.loads: the value of a text that is the JSON of a value, white space
\* aside; no value for any other text (a trailing comma, extra data)
JsonLoads(text) ==
    LET tokens == SelectSeq(text, LAMBDA c : ~IsSpace(c))
        values == {v \in {JsonScalar} \cup JsonFlat \cup JsonDocuments :
                       JsonDumps(v, <<>>) = tokens}
    IN  IF values = {} THEN [ok |-> FALSE, value |-> JsonScalar]
        ELSE [ok |-> TRUE, value |-> CHOOSE v \in values : TRUE]

\* how a model wraps its JSON: bare, in plain fences or in json fences
Fences == {<<>>, <<"~">>, <<"~", "j">>}

ModelText(v, fence, comma) ==
    IF fence = <<>> THEN JsonDumps(v, comma)
    ELSE fence \o <<" ">> \o JsonDumps(v, comma) \o <<" ", "~">>

\* re.sub of lit followed by white space: every occurrence of lit with the white
\* space behind it is replaced by rest
RECURSIVE ReSub(_, _, _)
ReSub(lit, rest, text) ==
    IF text = <<>> THEN <<>>
    ELSE IF Len(text) >= Len(lit) /\ SubSeq(text, 1, Len(lit)) = lit
    THEN rest \o ReSub(lit, rest, LStrip(SubSeq(text, Len(lit) + 1, Len(text))))
    ELSE <<Head(text)>> \o ReSub(lit, rest, Tail(text))

\* re.sub of a comma, white space and close by close: the repair of a
\* trailing comma
RECURSIVE RemoveCommaBefore(_, _)
RemoveCommaBefore(close, text) ==
    IF text = <<>> THEN <<>>
    ELSE IF Head(text) = "," /\ LStrip(Tail(text)) # <<>>
            /\ Head(LStrip(Tail(text))) = close
    THEN RemoveCommaBefore(close, LStrip(Tail(text)))
    ELSE <<Head(text)>> \o RemoveCommaBefore(close, Tail(text))

\* re.search of open, anything, close with re.DOTALL: from the first open
\* bracket that has a closing one behind it to the last closing one
ReSearch(open, close, text) ==
    LET ends == {j \in DOMAIN text : text[j] = close}
        last == CHOOSE j \in ends : \A k \in ends : k <= j
        starts == {i \in DOMAIN text : text[i] = open /\ ends # {} /\ i < last}
    IN  IF starts = {} THEN <<>>
        ELSE SubSeq(text, CHOOSE i \in starts : \A k \in starts : i <= k, last)

\* the body the three extract_json_from_text functions share: patterns are
\* the bracket pairs searched for in turn, repairs the closing brackets in
\* the order their trailing commas are removed
ExtractJson(text, patterns, repairs, failure) ==
    LET unfenced == Strip(ReSub(<<"~">>, <<>>, ReSub(<<"~", "j">>, <<>>, text)))
        spans == SelectSeq([i \in DOMAIN patterns |->
                               ReSearch(patterns[i][1], patterns[i][2], unfenced)],
                           LAMBDA m : m # <<>>)
        json_str == Head(spans)
        repaired == RemoveCommaBefore(repairs[2],
                        RemoveCommaBefore(repairs[1], json_str))
    IN  IF spans = <<>> THEN failure
        ELSE IF JsonLoads(json_str).ok THEN JsonLoads(json_str).value
        ELSE IF JsonLoads(repaired).ok THEN JsonLoads(repaired).value
        ELSE failure

\* None
JsonNull == [t |-> "null", items |-> <<>>]

\* the "fallback" object of the fact checker
JsonFallback == [t |-> "fallback", items |-> <<>>]

claim_extractor_extract_json_from_text(text) ==
    ExtractJson(text, <<<<"[", "]">>, <<"{", "}">>>>, <<"]", "}">>, JsonNull)

fact_checker_extract_json_from_response(text) ==
    ExtractJson(text, <<<<"{", "}">>>>, <<"}", "]">>, JsonFallback)

final_answer_extract_json_from_text(text) ==
    ExtractJson(text, <<<<"{", "}">>>>, <<"}", "]">>, JsonObject(<<>>))

\* one of the three parsers applied to the text in call
ParseText ==
    /\ pc = "parse"
    /\ \E fn \in {"claim_extractor", "fact_checker", "final_answer"} :
           call' = [call EXCEPT
                       !.fn = fn,
                       !.out = IF fn = "claim_extractor"
                               THEN claim_extractor_extract_json_from_text(call.arg.text)
                               ELSE IF fn = "fact_checker"
                               THEN fact_checker_extract_json_from_response(call.arg.text)
                               ELSE final_answer_extract_json_from_text(call.arg.text)]
    /\ pc' = "parsed"
    /\ UNCHANGED <<state, active, writes, step, executed, calls, result, agg, logger>>

----------------------------------------------------------------------------
(* The process-wide logger of streamlit_logger.py and the threads of the   *)
(* UI sessions that call add_log and set_callback on it.  A thread is at   *)
(* "idle" between calls; inside a call it goes through the statements of   *)
(* the method, one at a time.                                              *)

\* calls one thread makes
MaxLogOps == 2

LogThreads == {1, 2}

\* the callables the sessions install
Callbacks == {"A", "B"}

\* mutant of HoldsLockIn: add_log does not take the lock
HoldsLockInSetCallbackOnly(method) == method = "set_callback"

\* mutant of HoldsLockIn: set_callback does not take the lock
HoldsLockInAddLogOnly(method) == method = "add_log"

\* the methods whose body is inside "with self.lock"
HoldsLockIn(method) == method \in {"add_log", "set_callback"}

\* RealTimeStreamlitLogger.__init__, every thread idle, and the history of
\* the run: the appends, the callback invocations, the callables swapped out
NewLogger ==
    [logs |-> <<>>, lock |-> 0, callback |-> "None",
     at |-> [t \in LogThreads |-> "idle"],
     method |-> [t \in LogThreads |-> ""],
     arg |-> [t \in LogThreads |-> "None"],
     loaded |-> [t \in LogThreads |-> "None"],
     ops |-> [t \in LogThreads |-> 0],
     adds |-> [t \in LogThreads |-> 0],
     appended |-> <<>>, fired |-> <<>>, retired |-> {}, installed |-> {}]

\* thread t calls method with arg and enters its "with self.lock" block
LogEnter(t, method, arg) ==
    /\ pc = "logging"
    /\ logger.at[t] = "idle"
    /\ logger.ops[t] < MaxLogOps
    /\ HoldsLockIn(method) => logger.lock = 0
    /\ logger' = [logger EXCEPT
                      !.lock = IF HoldsLockIn(method) THEN t ELSE @,
                      !.at[t] = IF method = "add_log" THEN "append" ELSE "assign",
                      !.method[t] = method,
                      !.arg[t] = arg,
                      !.adds[t] = IF method = "add_log" THEN @ + 1 ELSE @,
                      !.installed = IF method = "set_callback" THEN @ \cup {arg}
                                    ELSE @]

\* add_log(message, level) is called; the message is <<thread, number>>
AddLogEnter == \E t \in LogThreads : LogEnter(t, "add_log", "None")

\* set_callback(callback) is called, with None or a callable not installed
\* before
SetCallbackEnter ==
    \E t \in LogThreads, c \in (Callbacks \cup {"None"}) \ (logger.installed \ {"None"}) :
        LogEnter(t, "set_callback", c)

\* self.logs.append((level, message))
AddLogAppend ==
    \E t \in LogThreads :
        /\ pc = "logging"
        /\ logger.at[t] = "append"
        /\ LET entry == [level |-> "info", message |-> <<t, logger.adds[t]>>]
           IN  logger' = [logger EXCEPT
                             !.logs = Append(@, entry),
                             !.appended = Append(@, [message |-> entry.message,
                                                     callback |-> logger.callback]),
                             !.at[t] = "check"]

\* if self.callback:
AddLogCheck ==
    \E t \in LogThreads :
        /\ pc = "logging"
        /\ logger.at[t] = "check"
        /\ logger' = [logger EXCEPT
                          !.at[t] = IF logger.callback # "None" THEN "load" ELSE "exit"]

\* self.callback is read again for the call
AddLogLoad ==
    \E t \in LogThreads :
        /\ pc = "logging"
        /\ logger.at[t] = "load"
        /\ logger' = [logger EXCEPT !.loaded[t] = logger.callback, !.at[t] = "call"]

\* the callable is called and returns or raises; what it raises is caught and
\* printed to sys.__stdout__.  Calling None raises before anything runs.
AddLogCall ==
    \E t \in LogThreads, raises \in BOOLEAN :
        /\ pc = "logging"
        /\ logger.at[t] = "call"
        /\ logger.loaded[t] = "None" => raises
        /\ logger' = [logger EXCEPT
                          !.fired = IF logger.loaded[t] = "None" THEN @
                                    ELSE Append(@, [callback |-> logger.loaded[t],
                                                    message |-> <<t, logger.adds[t]>>,
                                                    retired |-> logger.retired,
                                                    raised |-> raises]),
                          !.at[t] = "exit"]

\* self.callback = callback
SetCallbackAssign ==
    \E t \in LogThreads :
        /\ pc = "logging"
        /\ logger.at[t] = "assign"
        /\ logger' = [logger EXCEPT
                          !.callback = logger.arg[t],
                          !.loaded[t] = logger.callback,
                          !.at[t] = "exit"]

\* the with block is left and the method returns; a set_callback that
\* returns has swapped out the callable it replaced
LogExit ==
    \E t \in LogThreads :
        /\ pc = "logging"
        /\ logger.at[t] = "exit"
        /\ logger' = [logger EXCEPT
                          !.lock = IF @ = t THEN 0 ELSE @,
                          !.retired = IF logger.method[t] = "set_callback"
                                      THEN (@ \cup {logger.loaded[t]})
                                               \ {"None", logger.arg[t]}
                                      ELSE @,
                          !.loaded[t] = "None",
                          !.ops[t] = @ + 1,
                          !.at[t] = "idle"]

LoggerNext ==
    /\ \/ AddLogEnter
       \/ SetCallbackEnter
       \/ AddLogAppend
       \/ AddLogCheck
       \/ AddLogLoad
       \/ AddLogCall
       \/ SetCallbackAssign
       \/ LogExit
    /\ UNCHANGED <<pc, state, active, writes, step, executed, calls, result, agg, call>>

----------------------------------------------------------------------------
(* The UI sessions of app.py that run the pipeline on the process-wide     *)
(* logger.  Each session thread clears the logger, enters capture_logs,    *)
(* prints its lines, leaves capture_logs and reads the logs for its        *)
(* result.  sys.stdout is 0 for the console and t for the RealTimeStdout   *)
(* object the session of thread t created.  A line is <<thread, number>>.  *)

\* lines one invocation prints
MaxLines == 2

\* the callables a session may install: none, one that returns, one that
\* raises, one that prints
SessionCallbacks == {"None", "quiet", "raises", "prints"}

\* the logger and sys.stdout before any session has started
NewSession(callback) ==
    [logs |-> <<>>, lock |-> 0, callback |-> callback, stdout |-> 0,
     at |-> [t \in LogThreads |-> "idle"],
     old_stdout |-> [t \in LogThreads |-> 0],
     printed |-> [t \in LogThreads |-> 0],
     result_logs |-> [t \in LogThreads |-> <<>>]]

\* logger.clear() before the run
SessionClear ==
    \E t \in LogThreads :
        /\ logger.at[t] = "idle"
        /\ logger.lock = 0
        /\ logger' = [logger EXCEPT !.logs = <<>>, !.at[t] = "ready"]

\* capture_logs(real_time=True) up to its yield
CaptureEnter ==
    \E t \in LogThreads :
        /\ logger.at[t] = "ready"
        /\ logger' = [logger EXCEPT !.old_stdout[t] = logger.stdout,
                                     !.stdout = t,
                                     !.at[t] = "running"]

\* a print of the pipeline: the line goes to sys.stdout, and from a
\* RealTimeStdout on to add_log
PrintLine ==
    \E t \in LogThreads :
        /\ logger.at[t] = "running"
        /\ logger.printed[t] < MaxLines
        /\ logger' = [logger EXCEPT
                          !.printed[t] = @ + 1,
                          !.at[t] = IF logger.stdout = 0 THEN "running"
                                    ELSE "add_log"]

\* add_log takes the lock and appends; without a callback it leaves the
\* with block at once
AddLogAcquire ==
    \E t \in LogThreads :
        /\ logger.at[t] = "add_log"
        /\ logger.lock = 0
        /\ logger' = [logger EXCEPT
                          !.logs = Append(@, [level |-> "info",
                                              message |-> <<t, logger.printed[t]>>]),
                          !.lock = IF logger.callback = "None" THEN 0 ELSE t,
                          !.at[t] = IF logger.callback = "None" THEN "running"
                                    ELSE "callback"]

\* self.callback(level, message) inside the with block: it returns, or it
\* raises and the handler prints to sys.__stdout__, or it prints to
\* sys.stdout, whose write calls add_log again on the lock the thread holds
AddLogCallback ==
    \E t \in LogThreads :
        /\ logger.at[t] = "callback"
        /\ IF logger.callback = "prints" /\ logger.stdout # 0
           THEN logger' = [logger EXCEPT !.at[t] = "blocked"]
           ELSE logger' = [logger EXCEPT !.lock = 0, !.at[t] = "running"]

\* the finally block of capture_logs: sys.stdout = old_stdout
CaptureExit ==
    \E t \in LogThreads :
        /\ logger.at[t] = "running"
        /\ logger' = [logger EXCEPT !.stdout = logger.old_stdout[t],
                                     !.at[t] = "collect"]

\* result["logs"] = logger.get_logs()
CollectLogs ==
    \E t \in LogThreads :
        /\ logger.at[t] = "collect"
        /\ logger.lock = 0
        /\ logger' = [logger EXCEPT !.result_logs[t] = logger.logs,
                                     !.at[t] = "done"]

CaptureNext ==
    /\ pc = "sessions"
    /\ \/ SessionClear
       \/ CaptureEnter
       \/ PrintLine
       \/ AddLogAcquire
       \/ AddLogCallback
       \/ CaptureExit
       \/ CollectLogs
    /\ UNCHANGED <<pc, state, active, writes, step, executed, calls, result, agg, call>>

----------------------------------------------------------------------------
(* Specifications *)

Init ==
    /\ pc = "invoke"
    /\ state \in {ResearchState(q) : q \in Queries}
    /\ active = {ENTRY_POINT}
    /\ writes = {}
    /\ step = 1
    /\ executed = <<>>
    /\ calls = {}
    /\ result = NoResult
    /\ agg = AggIdle
    /\ call = NoCall
    /\ logger = NewLogger

Next ==
    \/ QueryUnderstanding
    \/ Retrieval
    \/ Reranking
    \/ Reasoning
    \/ ClaimExtraction
    \/ FactChecking
    \/ ComposeFinalAnswer
    \/ ErrorHandler
    \/ Superstep
    \/ ReturnResult

Spec == Init /\ [][Next]_vars

AggInit ==
    /\ pc = "aggregate"
    /\ state = ResearchState(<<>>)
    /\ active = {}
    /\ writes = {}
    /\ step = 1
    /\ executed = <<>>
    /\ calls = {}
    /\ result = NoResult
    /\ agg \in {[AggIdle EXCEPT !.input = m] : m \in WellFormedMappings}
    /\ call = NoCall
    /\ logger = NewLogger

AggNext == ApplyAggregator

AggSpec == AggInit /\ [][AggNext]_vars

RerankInit ==
    /\ pc = "rerank"
    /\ state \in {[ResearchState(q) EXCEPT !.retrieved_docs = d] :
                      q \in Queries, d \in RerankInputs}
    /\ active = {}
    /\ writes = {}
    /\ step = 1
    /\ executed = <<>>
    /\ calls = {}
    /\ result = NoResult
    /\ agg = AggIdle
    /\ call = NoCall
    /\ logger = NewLogger

RerankSpec == RerankInit /\ [][RerankOnly]_vars

VerifyInit ==
    /\ pc = "verify"
    /\ state \in {[ResearchState(q) EXCEPT !.retrieved_docs = <<Doc1>>,
                                            !.reranked_docs = <<Doc1>>,
                                            !.extracted_claims = c] :
                      q \in Queries, c \in VerifyInputs}
    /\ active = {}
    /\ writes = {}
    /\ step = 1
    /\ executed = <<>>
    /\ calls = {}
    /\ result = NoResult
    /\ agg = AggIdle
    /\ call = NoCall
    /\ logger = NewLogger

VerifySpec == VerifyInit /\ [][VerifyOnly]_vars

CaptureInit ==
    /\ pc = "sessions"
    /\ state = ResearchState(<<>>)
    /\ active = {}
    /\ writes = {}
    /\ step = 1
    /\ executed = <<>>
    /\ calls = {}
    /\ result = NoResult
    /\ agg = AggIdle
    /\ call = NoCall
    /\ logger \in {NewSession(c) : c \in SessionCallbacks}

CaptureSpec == CaptureInit /\ [][CaptureNext]_vars

ParseInit ==
    /\ pc = "parse"
    /\ state = ResearchState(<<>>)
    /\ active = {}
    /\ writes = {}
    /\ step = 1
    /\ executed = <<>>
    /\ calls = {}
    /\ result = NoResult
    /\ agg = AggIdle
    /\ call \in {[NoCall EXCEPT
                      !.arg = [value |-> v, text |-> ModelText(v, fence, comma)]] :
                  v \in JsonDocuments, fence \in Fences, comma \in {<<>>, <<",">>}}
    /\ logger = NewLogger

ParseSpec == ParseInit /\ [][ParseText]_vars

LoggerInit ==
    /\ pc = "logging"
    /\ state = ResearchState(<<>>)
    /\ active = {}
    /\ writes = {}
    /\ step = 1
    /\ executed = <<>>
    /\ calls = {}
    /\ result = NoResult
    /\ agg = AggIdle
    /\ call = NoCall
    /\ logger = NewLogger

LoggerSpec == LoggerInit /\ [][LoggerNext]_vars

----------------------------------------------------------------------------
(* Properties *)

ExecutedNodes == {executed[i].node : i \in DOMAIN executed}

\* run_research_pipeline has returned
Returned == pc = "returned"

\* it has returned the state invoke handed back
ReturnedState == Returned /\ StateKeys \subseteq result.keys

\* the writes of node have reached the channels
Applied(node) ==
    \E i \in DOMAIN executed : executed[i].node = node /\ executed[i].step < step

BreakdownSum(bd) ==
    bd.supported + bd.partially_supported + bd.not_supported + bd.contradicted

\* C1: whatever the collaborators do, run_research_pipeline returns a result
\* whose final_answer record has a final_answer string.
C1_FinalAnswerText ==
    Returned =>
        /\ "final_answer" \in result.keys
        /\ "final_answer" \in result.value.final_answer.keys

\* C2: once a stage has returned a state with a non-empty error, the only
\* node that executes afterwards is the error handler.
C2_OnlyErrorHandlerAfterError ==
    \A i \in DOMAIN executed :
        executed[i].after_error => executed[i].node = "error_handler"

\* C3: the error check also follows ComposeFinalAnswer: a run ends without
\* the error handler only if ComposeFinalAnswer completed with error empty.
C3_DoneOnlyWithoutError ==
    (ReturnedState /\ "error_handler" \notin ExecutedNodes) =>
        /\ "final_answer" \in ExecutedNodes
        /\ result.value.error = ""

\* C4: a returned state with a non-empty error carries the error handler's
\* final answer: confidence 0, no sources, the fixed limitations text.
C4_ErrorShapedAnswer ==
    (ReturnedState /\ result.value.error # "") =>
        /\ FinalAnswerKeys \subseteq result.value.final_answer.keys
        /\ result.value.final_answer.confidence_score = 0
        /\ result.value.final_answer.verified_sources = {}
        /\ result.value.final_answer.limitations =
               "System error prevented complete processing"

\* the normal stages among the executions, in execution order
ExecutedStages ==
    LET normal == SelectSeq(executed, LAMBDA e : e.node # "error_handler")
    IN  [i \in DOMAIN normal |-> normal[i].node]

\* C5: the stages execute in the fixed order, each at most once, one node
\* per step.
C5_StrictlySequential ==
    /\ ExecutedStages = SubSeq(NormalStages, 1, Len(ExecutedStages))
    /\ \A i, j \in DOMAIN executed :
           i # j => /\ executed[i].node # executed[j].node
                    /\ executed[i].step # executed[j].step

\* C6: after VerifyClaims the keys of verified_claims are exactly the
\* extracted claim texts, on every path of the stage.
C6_VerifiedKeysAreClaims ==
    /\ \A w \in writes :
           w.node = "fact_checking" =>
               DOMAIN w.state.verified_claims = Range(w.state.extracted_claims)
    /\ Applied("fact_checking") =>
           DOMAIN state.verified_claims = Range(state.extracted_claims)

\* C6 witness: VerifyClaims has returned for two claims, one the model
\* verified and one its output did not mention.
C6_Witness ==
    \E w \in writes :
        /\ w.node = "fact_checking"
        /\ Len(w.state.extracted_claims) = 2
        /\ \E c \in DOMAIN w.state.verified_claims :
               w.state.verified_claims[c] = MissingEntry
        /\ \E c \in DOMAIN w.state.verified_claims :
               w.state.verified_claims[c].verification_status = "SUPPORTED"

\* C7: every returned FinalAnswer has a claim_breakdown whose four counts
\* sum to the number of extracted claims of the run.
C7_BreakdownSumsToClaims ==
    Returned =>
        /\ "claim_breakdown" \in result.value.final_answer.keys
        /\ BreakdownSum(result.value.final_answer.claim_breakdown) =
               Len(result.value.extracted_claims)

WellFormedVerification(v) ==
    /\ v.is_dict
    /\ EntryKeys \subseteq v.keys
    /\ v.verification_status \in Statuses
    /\ v.conf_is_number
    /\ v.confidence >= 0 /\ v.confidence <= 100

\* C8: every value stored in verified_claims is a well-formed
\* ClaimVerification, whatever the model returned.
C8_VerificationsWellFormed ==
    \A c \in DOMAIN state.verified_claims :
        WellFormedVerification(state.verified_claims[c])

\* a run that has returned its state after Retrieve found no document
ReturnedWithoutDocuments ==
    /\ ReturnedState
    /\ "retrieval" \in ExecutedNodes
    /\ result.value.retrieved_docs = <<>>

\* what C9 says of every stage but ExtractClaims
NoDocumentsRun(calls_without) ==
    /\ calls \cap calls_without = {}
    /\ result.value.reranked_docs = <<>>
    /\ result.value.draft_answer = NO_DOCS_DRAFT
    /\ DOMAIN result.value.verified_claims = Range(result.value.extracted_claims)
    /\ \A c \in DOMAIN result.value.verified_claims :
           result.value.verified_claims[c] = NoDocumentsEntry
    /\ "final_answer" \in result.value.final_answer.keys
    /\ result.value.final_answer.confidence_score = 0
    /\ result.value.final_answer.verified_sources = {}

\* C9 as stated: without documents no scorer or LLM call is made in Rerank,
\* Draft, ExtractClaims and VerifyClaims, the draft is the fixed message,
\* extracted_claims is the no-content sentinel list, every entry is the
\* no-documents entry, and the answer has confidence 0 and no sources.
C9_Original ==
    ReturnedWithoutDocuments =>
        /\ NoDocumentsRun({"score", "draft_llm", "extract_llm", "verify_llm"})
        /\ result.value.extracted_claims = <<NO_CONTENT_CLAIM>>

\* C9 as amended: the same, except that ExtractClaims does make its LLM call
\* on the fixed draft and extracted_claims is what extract_claims makes of
\* the model's answer.
C9_NoDocumentsRun ==
    ReturnedWithoutDocuments =>
        /\ NoDocumentsRun({"score", "draft_llm", "verify_llm"})
        /\ "extract_llm" \in calls

\* C9 witness: a run without documents whose claims came from the model.
C9_Witness ==
    /\ ReturnedWithoutDocuments
    /\ result.value.extracted_claims = <<TxtA, TxtAB>>
    /\ result.value.final_answer.final_answer = "answer"

ReturnedComposedAnswer ==
    /\ ReturnedState
    /\ "claim_breakdown" \in result.value.final_answer.keys

\* the claims of the returned mapping that have the given status
ReturnedWithStatus(status) ==
    {c \in DOMAIN result.value.verified_claims :
         result.value.verified_claims[c].verification_status = status}

\* C11: in the aggregate confidence of the final answer a CONTRADICTED claim
\* adds 0 to the sum whatever its confidence, and still counts as one claim
\* in the mean and in claim_breakdown: with only SUPPORTED and CONTRADICTED
\* claims the score is the sum of the supported confidences over the number
\* of all claims, and {SUPPORTED 90, CONTRADICTED 80} gives 45.0 with the
\* breakdown 1, 0, 0, 1.
C11_ContradictedCountsForZero ==
    LET vc == result.value.verified_claims
        fa == result.value.final_answer
        sup == ReturnedWithStatus("SUPPORTED")
        con == ReturnedWithStatus("CONTRADICTED")
    IN  (/\ ReturnedComposedAnswer
         /\ sup \cup con = DOMAIN vc
         /\ con # {}) =>
            /\ fa.claim_breakdown =
                   Breakdown(Cardinality(sup), 0, 0, Cardinality(con))
            /\ fa.confidence_score =
                   RoundHalfEven(SumOver([c \in sup |-> vc[c].confidence * 100], sup),
                                 Cardinality(DOMAIN vc))
            /\ (/\ Cardinality(sup) = 1 /\ Cardinality(con) = 1
                /\ \A c \in sup : vc[c].confidence = 90
                /\ \A c \in con : vc[c].confidence = 80)
                   => fa.confidence_score = 4500

\* C11 witness: the answer composed for one claim SUPPORTED with confidence
\* 90 and one CONTRADICTED with confidence 80.
C11_Witness ==
    /\ ReturnedComposedAnswer
    /\ Cardinality(DOMAIN result.value.verified_claims) = 2
    /\ \E c \in ReturnedWithStatus("SUPPORTED") :
           result.value.verified_claims[c].confidence = 90
    /\ \E c \in ReturnedWithStatus("CONTRADICTED") :
           result.value.verified_claims[c].confidence = 80
    /\ result.value.final_answer.confidence_score = 4500

\* Rerank has returned a list for the documents and scores in call
Reranked == pc = "reranked" /\ ~call.out.raises

\* the place of a Document object in the retrieved list
RetrievedIndex(doc) ==
    CHOOSE i \in DOMAIN call.arg.retrieved_docs : call.arg.retrieved_docs[i] = doc

\* the score the scorer returned for a Document object
ScoreOf(doc) == call.out.scores[RetrievedIndex(doc)]

\* C12: after Rerank, reranked_docs has at most min(3, len(retrieved_docs))
\* elements, each one of the retrieved documents, in non-increasing order of
\* the scores the scorer returned for them, and documents of equal score are
\* in their retrieval order.
C12_RerankOrdered ==
    Reranked =>
        LET r == state.reranked_docs
            d == call.arg.retrieved_docs
        IN  /\ Len(r) <= Min(3, Len(d))
            /\ \A i \in DOMAIN r : r[i] \in Range(d)
            /\ \A i, j \in DOMAIN r :
                   i < j => /\ ScoreOf(r[i]) >= ScoreOf(r[j])
                            /\ ScoreOf(r[i]) = ScoreOf(r[j]) =>
                                   RetrievedIndex(r[i]) < RetrievedIndex(r[j])

\* C13: whatever JSON array or object a text renders, bare or fenced, with or
\* without a trailing comma before its closing bracket, each of the three
\* extract_json_from_text functions returns a value equal to it.
C13_ParserRoundTrip ==
    pc = "parsed" => call.out = call.arg.value

\* the messages thread t has appended so far, in the order of its calls
AppendedBy(t) ==
    LET n == IF logger.method[t] = "add_log" /\ logger.at[t] = "append"
             THEN logger.adds[t] - 1 ELSE logger.adds[t]
    IN  [k \in 1..n |-> <<t, k>>]

\* the appends made while a callback was installed
Notifiable == SelectSeq(logger.appended, LAMBDA e : e.callback # "None")

\* the threads between their append and the call of the callback
Notifying == {t \in LogThreads : logger.at[t] \in {"check", "load", "call"}}

\* C14: under any interleaving of add_log calls of several threads every
\* call's entry is in logs exactly once, the entries of a thread are in the
\* order of its calls, and the callback installed at an append is invoked
\* once for it, in the order of the appends.
C14_ConcurrentAppends ==
    /\ \A t \in LogThreads :
           LET mine == SelectSeq(logger.logs, LAMBDA e : e.message[1] = t)
           IN  [k \in DOMAIN mine |-> mine[k].message] = AppendedBy(t)
    /\ Len(logger.fired) <= Len(Notifiable)
    /\ Len(logger.fired) >= Len(Notifiable) - Cardinality(Notifying)
    /\ \A i \in DOMAIN logger.fired :
           /\ logger.fired[i].message = Notifiable[i].message
           /\ logger.fired[i].callback = Notifiable[i].callback

\* C14 witness: the appends of two threads are interleaved in logs and the
\* callback has been invoked for entries of both.
C14_Witness ==
    /\ Len(logger.logs) = 3
    /\ logger.logs[1].message = <<1, 1>>
    /\ logger.logs[2].message = <<2, 1>>
    /\ logger.logs[3].message = <<1, 2>>
    /\ Len(logger.fired) >= 2
    /\ {logger.fired[i].message[1] : i \in DOMAIN logger.fired} = LogThreads

\* C15: once set_callback has returned, no add_log invokes a callable that
\* this or an earlier set_callback swapped out; after set_callback(None)
\* has returned none is invoked.
C15_NoStaleCallback ==
    \A i \in DOMAIN logger.fired :
        logger.fired[i].callback \notin logger.fired[i].retired

\* C15 witness: a callback was invoked after another had been swapped out,
\* and set_callback(None) has then returned.
C15_Witness ==
    /\ \E i \in DOMAIN logger.fired : logger.fired[i].retired # {}
    /\ logger.callback = "None"
    /\ logger.retired = Callbacks
    /\ \A t \in LogThreads : logger.at[t] = "idle"

\* C16: no stage changes the state object it received, on any branch: what
\* it returns is a new object.
C16_NoInPlaceMutation ==
    \A i \in DOMAIN executed : ~executed[i].input_changed

\* C17: the query Retrieve passes to the search, and Rerank and Draft to
\* their models, is refined_query when that is not empty and original_query
\* when it is, as after a refinement that gave an empty or blank text.
C17_QueryFallback ==
    \A i \in DOMAIN executed :
        executed[i].query.used =>
            executed[i].query.text =
                IF state.refined_query # <<>> THEN state.refined_query
                ELSE state.original_query

\* node ran alone in the step before the current one, with no error set
RanWithoutError(node) ==
    /\ pc = "invoke"
    /\ state.error = ""
    /\ \E i \in DOMAIN executed :
           executed[i].node = node /\ executed[i].step + 1 = step
           /\ ~executed[i].after_error

\* C18: a failure of the LLM call in ExtractClaims or in VerifyClaims leaves
\* the error field as it was: ExtractClaims returns its three placeholder
\* claims, VerifyClaims a NOT_SUPPORTED entry of confidence 0 for every
\* claim with the exception text in its evidence, and the next normal stage
\* is scheduled.
C18_LLMFailureIsData ==
    /\ \A w \in writes :
           (w.node = "claim_extraction" /\ "extract_llm_failed" \in calls) =>
               /\ w.state.error = state.error
               /\ w.state.extracted_claims =
                      <<FALLBACK_CLAIM_1, FALLBACK_CLAIM_2, FALLBACK_CLAIM_3>>
    /\ \A w \in writes :
           (w.node = "fact_checking" /\ "verify_llm_failed" \in calls) =>
               /\ w.state.error = state.error
               /\ DOMAIN w.state.verified_claims = Range(w.state.extracted_claims)
               /\ \A c \in DOMAIN w.state.verified_claims :
                      /\ w.state.verified_claims[c].verification_status = "NOT_SUPPORTED"
                      /\ w.state.verified_claims[c].confidence = 0
                      /\ \E m \in ExcMsgs :
                             w.state.verified_claims[c].evidence = "System error: " \o m
    /\ (RanWithoutError("claim_extraction") /\ "extract_llm_failed" \in calls) =>
           active = {"fact_checking"}
    /\ (RanWithoutError("fact_checking") /\ "verify_llm_failed" \in calls) =>
           active = {"final_answer"}

\* C18 witness: both LLM calls failed and the run went on to compose the
\* answer for the three placeholder claims.
C18_Witness ==
    /\ {"extract_llm_failed", "verify_llm_failed"} \subseteq calls
    /\ RanWithoutError("fact_checking")
    /\ active = {"final_answer"}
    /\ Cardinality(DOMAIN state.verified_claims) = 3

\* C19: ComposeFinalAnswer always produces a FinalAnswer and leaves error as
\* it was: whatever the verified_claims mapping and the context documents,
\* its write carries all the keys of a composed answer, and a failed
\* generation changes only the text, which embeds the error message, and
\* the limitations, which read "System error during answer generation".
C19_ComposeAlwaysAnswers ==
    \A w \in writes :
        w.node = "final_answer" =>
            /\ w.state.error = state.error
            /\ FinalAnswerKeys \cup {"claim_breakdown"}
                   \subseteq w.state.final_answer.keys
            /\ \E ok \in {o \in FinalLLMOutcomes : ~o.raises} :
                   LET success == generate_final_answer(state.original_query,
                                      state.verified_claims, ContextDocs(state), ok)
                       answer == w.state.final_answer
                   IN  \/ answer = success
                       \/ /\ answer.limitations =
                                 "System error during answer generation"
                          /\ \E m \in ExcMsgs : answer.final_answer =
                                 "I encountered an error while generating the final answer: "
                                     \o m
                          /\ answer.confidence_score = success.confidence_score
                          /\ answer.verified_sources = success.verified_sources
                          /\ answer.claim_breakdown = success.claim_breakdown

\* the write of VerifyClaims when it received no context documents
VerifiedWithoutDocuments(w) ==
    /\ w.node = "fact_checking"
    /\ state.reranked_docs = <<>>
    /\ state.retrieved_docs = <<>>

\* VerifyClaims made no LLM call, left error alone and wrote one entry per
\* extracted claim, NOT_SUPPORTED with confidence 0
SyntheticEntries(w) ==
    /\ "verify_llm" \notin calls
    /\ w.state.error = state.error
    /\ DOMAIN w.state.verified_claims = Range(state.extracted_claims)
    /\ \A c \in DOMAIN w.state.verified_claims :
           /\ w.state.verified_claims[c].verification_status = "NOT_SUPPORTED"
           /\ w.state.verified_claims[c].confidence = 0

\* C20 (amended): VerifyClaims with no context documents (reranked_docs and
\* retrieved_docs both empty) makes no LLM call, leaves error as it was and
\* gives every extracted claim an entry NOT_SUPPORTED with confidence 0,
\* evidence "No documents available for verification" and explanation
\* "Cannot verify claims without source documents".
C20_NoDocumentsVerification ==
    \A w \in writes :
        VerifiedWithoutDocuments(w) =>
            /\ SyntheticEntries(w)
            /\ \A c \in DOMAIN w.state.verified_claims :
                   /\ w.state.verified_claims[c].evidence =
                          "No documents available for verification"
                   /\ w.state.verified_claims[c].explanation =
                          "Cannot verify claims without source documents"

\* C20 witness: VerifyClaims ran without documents on at least one claim and
\* with no error set.
C20_Witness ==
    \E w \in writes :
        /\ VerifiedWithoutDocuments(w)
        /\ state.extracted_claims # <<>>
        /\ state.error = ""

\* C20 as stated: the explanation of every such entry is the text "no
\* documents available for verification", in either capitalisation.
C20_Original ==
    \A w \in writes :
        VerifiedWithoutDocuments(w) =>
            /\ SyntheticEntries(w)
            /\ \A c \in DOMAIN w.state.verified_claims :
                   w.state.verified_claims[c].explanation \in
                       {"no documents available for verification",
                        "No documents available for verification"}

\* the stages that work on the context documents
ContextStages == {"reasoning", "fact_checking", "final_answer"}

\* C21: Draft, VerifyClaims and ComposeFinalAnswer each take reranked_docs
\* when it is non-empty and retrieved_docs otherwise, so the stages of one
\* run work on the same sequence; Draft calls its LLM exactly when that
\* context is non-empty, and otherwise writes the fixed no-relevant-documents
\* draft.
C21_SharedContext ==
    /\ \A i \in DOMAIN executed :
           executed[i].node \in ContextStages =>
               /\ executed[i].context.used
               /\ executed[i].context.docs =
                      IF state.reranked_docs # <<>> THEN state.reranked_docs
                      ELSE state.retrieved_docs
    /\ \A i, j \in DOMAIN executed :
           (executed[i].node \in ContextStages /\ executed[j].node \in ContextStages)
               => executed[i].context.docs = executed[j].context.docs
    /\ \A i \in DOMAIN executed :
           executed[i].node = "reasoning" =>
               ("draft_llm" \in calls <=> executed[i].context.docs # <<>>)
    /\ \A w \in writes :
           (w.node = "reasoning" /\ state.reranked_docs = <<>>
                /\ state.retrieved_docs = <<>>) =>
               /\ w.state.draft_answer = NO_DOCS_DRAFT
               /\ w.state.error = state.error

\* C21 witness: the three stages have run on a non-empty reranked sequence
\* that is not the retrieved one.
C21_Witness ==
    /\ ContextStages \subseteq ExecutedNodes
    /\ state.reranked_docs # <<>>
    /\ state.reranked_docs # state.retrieved_docs

\* C21 witness of the fall back: Draft has run on retrieved_docs because
\* reranked_docs was empty.
C21_FallbackReached ==
    \E i \in DOMAIN executed :
        /\ executed[i].node = "reasoning"
        /\ state.reranked_docs = <<>>
        /\ executed[i].context.docs # <<>>

\* the write of ExtractClaims for a draft that is empty or only white space
ExtractedFromBlank(w) ==
    /\ w.node = "claim_extraction"
    /\ Strip(state.draft_answer) = <<>>

\* C22: for a draft_answer that is empty or only white space ExtractClaims
\* makes no LLM call and returns the list of exactly one element, the
\* no-content sentinel claim.
C22_BlankDraftSentinel ==
    \A w \in writes :
        ExtractedFromBlank(w) =>
            /\ "extract_llm" \notin calls
            /\ w.state.extracted_claims = <<NO_CONTENT_CLAIM>>
            /\ w.state.error = state.error

\* C22 witness: ExtractClaims has run on a draft of white space only that
\* the Draft stage wrote.
C22_Witness ==
    \E w \in writes :
        /\ ExtractedFromBlank(w)
        /\ state.draft_answer # <<>>
        /\ state.error = ""

\* VerifyClaims has reconciled the claims with the object the model returned
Reconciled == pc = "verified" /\ ~call.out.raises

\* the parsed output of the verification model, in key order
ParsedResults == fact_checker_extract_json_from_text(call.out)

\* the keys of the parsed output that match the claim at position i
MatchingKeys(i) ==
    {j \in DOMAIN ParsedResults :
         \/ Contains(ParsedResults[j].key, call.arg.extracted_claims[i])
         \/ Contains(ParsedResults[j].key, ClaimLabel(i))}

\* C23: reconciliation is first-match-wins: the entry stored under the claim
\* at position i is the value of the first key of the parsed output, in key
\* order, that contains the claim text or the text "Claim i"; the claim gets
\* the synthetic NOT_SUPPORTED entry only when no key matches.
C23_FirstMatchWins ==
    Reconciled =>
        \A i \in DOMAIN call.arg.extracted_claims :
            LET stored == state.verified_claims[call.arg.extracted_claims[i]]
            IN  IF MatchingKeys(i) = {} THEN stored = MissingEntry
                ELSE \E j \in MatchingKeys(i) :
                         /\ \A k \in MatchingKeys(i) : j <= k
                         /\ stored = ParsedResults[j].value

\* C30: if the parsed output has, for every claim, a key equal to the claim
\* text, every claim is assigned the value under its own key.
C30_ExactKeyWins ==
    (/\ Reconciled
     /\ \A i \in DOMAIN call.arg.extracted_claims :
            \E j \in DOMAIN ParsedResults :
                ParsedResults[j].key = call.arg.extracted_claims[i]) =>
        \A i \in DOMAIN call.arg.extracted_claims :
            \A j \in DOMAIN ParsedResults :
                ParsedResults[j].key = call.arg.extracted_claims[i] =>
                    state.verified_claims[call.arg.extracted_claims[i]]
                        = ParsedResults[j].value

\* the field each node writes when it succeeds
OutputField ==
    [n \in Nodes |->
        CASE n = "query_understanding" -> "refined_query"
          [] n = "retrieval" -> "retrieved_docs"
          [] n = "reranking" -> "reranked_docs"
          [] n = "reasoning" -> "draft_answer"
          [] n = "claim_extraction" -> "extracted_claims"
          [] n = "fact_checking" -> "verified_claims"
          [] OTHER -> "final_answer"]

\* the fields the stages before ComposeFinalAnswer write
StageFields == {OutputField[n] : n \in Nodes} \ {"final_answer"}

\* what a node returned differs from what it received in its output field
\* or in error only, and in error only when it failed
WritesOwnField(w) ==
    /\ \A f \in StateKeys \ {OutputField[w.node], "error"} : w.state[f] = state[f]
    /\ w.state.error # state.error =>
           w.state[OutputField[w.node]] = state[OutputField[w.node]]

\* C25: each stage changes only its own output field and, on failure, error:
\* original_query never changes, a failed QueryRefine leaves refined_query
\* empty, and a field a stage has set keeps its value to the end of the run.
C25_FrameEffects ==
    /\ [](\A w \in writes : WritesOwnField(w))
    /\ [](\A w \in writes :
              (w.node = "query_understanding" /\ w.state.error # "") =>
                  w.state.refined_query = <<>>)
    /\ [][/\ state'.original_query = state.original_query
          /\ \A f \in StageFields :
                 state[f] # ResearchState(<<>>)[f] => state'[f] = state[f]]_vars

\* C25 witness: every stage has written its field and the run has returned
\* them.
C25_Witness ==
    /\ ReturnedState
    /\ result.value.error = ""
    /\ \A f \in StageFields : result.value[f] # ResearchState(<<>>)[f]
    /\ "claim_breakdown" \in result.value.final_answer.keys

\* C26: add_log always returns and releases the lock, whatever the installed
\* callback does: the lock is held only by a thread whose callback is
\* running, and no thread waits for the lock it holds itself.
C26_AddLogReturns ==
    /\ \A t \in LogThreads : logger.at[t] # "blocked"
    /\ logger.lock # 0 => logger.at[logger.lock] = "callback"

\* C27: once every capture_logs context has exited, sys.stdout is the stream
\* that was installed before the first capture began.
C27_StdoutRestored ==
    (\A t \in LogThreads : logger.at[t] \in {"idle", "ready", "collect", "done"})
        => logger.stdout = 0

\* C28: the logs attached to the result of an invocation are exactly the
\* lines printed during that invocation, in order.
C28_OwnLogsOnly ==
    \A t \in LogThreads :
        logger.at[t] = "done" =>
            [i \in DOMAIN logger.result_logs[t] |-> logger.result_logs[t][i].message]
                = [k \in 1..logger.printed[t] |-> <<t, k>>]

\* C24: every element of the list ExtractClaims returns, on every path, is a
\* string whose stripped length is greater than 10.
C24_ClaimsAreLongStrings ==
    \A w \in writes :
        w.node = "claim_extraction" =>
            \A i \in DOMAIN w.state.extracted_claims :
                Len(Strip(w.state.extracted_claims[i])) > 10

\* C24 witness: ExtractClaims has returned two claims out of the answer of
\* the extraction model.
C24_Witness ==
    \E w \in writes :
        /\ w.node = "claim_extraction"
        /\ "extract_llm" \in calls
        /\ "extract_llm_failed" \notin calls
        /\ Len(w.state.extracted_claims) = 2
        /\ w.state.extracted_claims[1] # w.state.extracted_claims[2]

\* the places in retrieved_docs of the copies the scorer ranks in its top 3:
\* fewer than RERANK_TOP_K copies come before them in the stable sort
TopScored ==
    LET sc == call.out.scores
    IN  {i \in DOMAIN sc :
             Cardinality({j \in DOMAIN sc :
                              \/ sc[j] > sc[i]
                              \/ sc[j] = sc[i] /\ j < i}) < RERANK_TOP_K}

\* C29: reranked_docs never holds the same retrieved record twice, and holds
\* exactly the records whose scored copies are in the scorer's top 3, also
\* when two retrieved documents have the same content.
C29_NoDuplicateRecords ==
    Reranked =>
        /\ \A i, j \in DOMAIN state.reranked_docs :
               i # j => state.reranked_docs[i] # state.reranked_docs[j]
        /\ {state.reranked_docs[i] : i \in DOMAIN state.reranked_docs}
               = {call.arg.retrieved_docs[i] : i \in TopScored}

====
